---- MODULE Spec2Model ----
(***************************************************************************)
(* Model of tonic-otel-layer (src/src/lib.rs): MetricsService wraps an     *)
(* inner tower Service, MetricsFuture wraps the inner future and records   *)
(* into the four instruments of Metrics.                                   *)
(*                                                                         *)
(* Strings are sequences of one-character strings, so that rsplit_once and *)
(* Code::from_bytes are computed character by character.                   *)
(***************************************************************************)
EXTENDS Integers, Sequences, FiniteSets, TLC

VARIABLES
    now,          \* the monotonic clock read by Instant::now()
    fut,          \* per call: the MetricsFuture built by MetricsService::call
    metrics,      \* the shared Metrics: one function per instrument, key -> value
    polls,        \* per call: number of polls of its MetricsFuture so far
    last,         \* the latest poll: its call (0 for poll_ready), what the inner
                  \* poll returned, what the wrapper returned, the instrument
                  \* operations in order
    tally,        \* per call: how many operations of each kind it has issued
    hist          \* per call: the clock at its first poll, and whether it was
                  \* polled again after its MetricsFuture returned Ready

vars == <<now, fut, metrics, polls, last, tally, hist>>

----------------------------------------------------------------------------
(* Bounds *)

MaxCalls == 2
MaxPolls == 2
MaxClock == 1

Calls == 1..MaxCalls

----------------------------------------------------------------------------
(* Values *)

\* Option<T>: None is the empty tuple, Some(x) the one-element tuple.
None == <<>>
Some(x) == <<x>>
\* The result slot of a Poll value that carries no result.
NoRes == [kind |-> "None", grpc_status |-> None]

\* Request paths offered to MetricsService::call.
PathSM  == <<"/", "s", "/", "m">>
PathSTM == <<"/", "s", "/", "t", "/", "m">>
PathNoSep == <<"s", "m">>
Paths == {PathSM, PathSTM, PathNoSep}

\* grpc-status header values a response may carry.
HdrNotFoundDigits == <<"5">>
HdrUnauthDigits == <<"1", "6">>
HdrOutOfRange == <<"1", "7">>
HdrNotFoundText == <<"N", "O", "T", "_", "F", "O", "U", "N", "D">>
HeaderValues == {HdrNotFoundDigits, HdrUnauthDigits, HdrOutOfRange, HdrNotFoundText}

\* Result<Response, E> values the inner future may yield.
OkResp(h) == [kind |-> "Ok", grpc_status |-> h]
ErrRes == [kind |-> "Err", grpc_status |-> None]
Results == {OkResp(None)} \cup {OkResp(Some(h)) : h \in HeaderValues} \cup {ErrRes}

\* Poll<Result<..>> values, and the unwinding of a panic out of poll.
Pending == [tag |-> "Pending", res |-> NoRes]
Ready(res) == [tag |-> "Ready", res |-> res]
Panicked == [tag |-> "Panic", res |-> NoRes]
NotPolled == [tag |-> "NotPolled", res |-> NoRes]

\* tonic::Code discriminants used by the layer.
CodeOk == 0
CodeUnknown == 2

CodeNames ==
    <<"Ok", "Cancelled", "Unknown", "InvalidArgument", "DeadlineExceeded",
      "NotFound", "AlreadyExists", "PermissionDenied", "ResourceExhausted",
      "FailedPrecondition", "Aborted", "OutOfRange", "Unimplemented",
      "Internal", "Unavailable", "DataLoss", "Unauthenticated">>

\* format!("{:?}", code): the derived Debug name of the variant.
DebugFmt(code) == CodeNames[code + 1]

DigitChars == <<"0", "1", "2", "3", "4", "5", "6", "7", "8", "9">>

\* The value of an ASCII digit, -1 for any other byte.
DigitOf(ch) ==
    IF \E d \in 1..10 : DigitChars[d] = ch
    THEN (CHOOSE d \in 1..10 : DigitChars[d] = ch) - 1
    ELSE -1

\* Code::from_bytes, whose every unmatched arm is parse_err() = Code::Unknown.
MutFromBytesErrOk(bytes) ==
    IF Len(bytes) = 1 /\ DigitOf(bytes[1]) >= 0 THEN DigitOf(bytes[1])
    ELSE IF Len(bytes) = 2 /\ bytes[1] = "1" /\ DigitOf(bytes[2]) \in 0..6
         THEN 10 + DigitOf(bytes[2])
         ELSE CodeOk

Code_from_bytes(bytes) ==
    IF Len(bytes) = 1 /\ DigitOf(bytes[1]) >= 0 THEN DigitOf(bytes[1])
    ELSE IF Len(bytes) = 2 /\ bytes[1] = "1" /\ DigitOf(bytes[2]) \in 0..6
         THEN 10 + DigitOf(bytes[2])
         ELSE CodeUnknown

\* res.as_ref().map_or(Code::Unknown, |resp| headers.get("grpc-status")
\*     .map(from_bytes).unwrap_or(Code::Ok))
MutCodeErrOk(res) ==
    IF res.kind = "Err" THEN CodeOk
    ELSE IF res.grpc_status = None THEN CodeOk
         ELSE Code_from_bytes(res.grpc_status[1])

MutCodeIgnoresHeader(res) ==
    IF res.kind = "Err" THEN CodeUnknown ELSE CodeOk

MutCodeAbsentUnknown(res) ==
    IF res.kind = "Err" THEN CodeUnknown
    ELSE IF res.grpc_status = None THEN CodeUnknown
         ELSE Code_from_bytes(res.grpc_status[1])

ResultCode(res) ==
    IF res.kind = "Err" THEN CodeUnknown
    ELSE IF res.grpc_status = None THEN CodeOk
         ELSE Code_from_bytes(res.grpc_status[1])

\* str::rsplit_once("/"): split at the last separator, None when there is none.
MutSplitNoneAsMethod(path) ==
    IF \E i \in 1..Len(path) : path[i] = "/"
    THEN LET i == CHOOSE k \in 1..Len(path) :
                    path[k] = "/" /\ \A j \in (k + 1)..Len(path) : path[j] # "/"
         IN Some(<<SubSeq(path, 1, i - 1), SubSeq(path, i + 1, Len(path))>>)
    ELSE Some(<<<<>>, path>>)

MutSplitAtFirst(path) ==
    IF \E i \in 1..Len(path) : path[i] = "/"
    THEN LET i == CHOOSE k \in 1..Len(path) :
                    path[k] = "/" /\ \A j \in 1..(k - 1) : path[j] # "/"
         IN Some(<<SubSeq(path, 1, i - 1), SubSeq(path, i + 1, Len(path))>>)
    ELSE None

rsplit_once(path) ==
    IF \E i \in 1..Len(path) : path[i] = "/"
    THEN LET i == CHOOSE k \in 1..Len(path) :
                    path[k] = "/" /\ \A j \in (k + 1)..Len(path) : path[j] # "/"
         IN Some(<<SubSeq(path, 1, i - 1), SubSeq(path, i + 1, Len(path))>>)
    ELSE None

----------------------------------------------------------------------------
(* Instruments *)

NoPoints == [k \in {} |-> 0]

\* Counter::add / UpDownCounter::add on the data point of the label set `key`.
Add(instr, key, v) ==
    IF key \in DOMAIN instr
    THEN [instr EXCEPT ![key] = @ + v]
    ELSE (key :> v) @@ instr

Op(inst, key, val) == [inst |-> inst, key |-> key, val |-> val]

\* One instrument operation applied to the Metrics struct; a histogram data
\* point is the bag of the samples recorded under its label set.
ApplyOp(m, op) ==
    IF op.inst = "handling_duration"
    THEN [m EXCEPT !.handling_duration =
            IF op.key \in DOMAIN @
            THEN [@ EXCEPT ![op.key] = Add(@, op.val, 1)]
            ELSE (op.key :> (op.val :> 1)) @@ @]
    ELSE [m EXCEPT ![op.inst] = Add(@, op.key, op.val)]

\* The operations of one poll counted by kind.
NoTally == [inc |-> 0, dec |-> 0, started |-> 0, handled |-> 0, samples |-> 0]

CountOps(ops, inst, vals) ==
    Cardinality({i \in 1..Len(ops) : ops[i].inst = inst /\ ops[i].val \in vals})

AddTally(t, ops) ==
    [inc |-> t.inc + CountOps(ops, "active_requests", {1}),
     dec |-> t.dec + CountOps(ops, "active_requests", {-1}),
     started |-> t.started + CountOps(ops, "started_total", {1}),
     handled |-> t.handled + CountOps(ops, "handled_total", {1}),
     samples |-> t.samples + CountOps(ops, "handling_duration", 0..MaxClock)]

RECURSIVE ApplyOps(_, _)
ApplyOps(m, ops) ==
    IF ops = <<>> THEN m
    ELSE ApplyOps(ApplyOp(m, Head(ops)), Tail(ops))

----------------------------------------------------------------------------
(* MetricsFuture::poll, piece by piece *)

\* Option::get_or_insert_with: whether the closure runs.
MutAlwaysInsert(started_at) == TRUE

IsFirstPoll(started_at) == started_at = None

\* The closure of get_or_insert_with: the "started" recording.
StartedOps(f) ==
    LET sm_labels == <<f.service, f.method>>
    IN <<Op("active_requests", sm_labels, 1), Op("started_total", sm_labels, 1)>>

\* The body of `if let Poll::Ready(res)`: the completion recording.
MutCompletionKeepsActive(f, res, started_at, t) ==
    LET smc_labels == <<f.service, f.method, DebugFmt(ResultCode(res))>>
        elapsed == t - started_at[1]
    IN <<Op("handled_total", smc_labels, 1),
         Op("handling_duration", smc_labels, elapsed)>>

CompletionOps(f, res, started_at, t) ==
    LET sm_labels == <<f.service, f.method>>
        smc_labels == <<f.service, f.method, DebugFmt(ResultCode(res))>>
        elapsed == t - started_at[1]
    IN <<Op("active_requests", sm_labels, -1),
         Op("handled_total", smc_labels, 1),
         Op("handling_duration", smc_labels, elapsed)>>

\* What poll hands back for what inner.poll returned.
MutOutputDropsErr(r) ==
    IF r.tag = "Ready" /\ r.res.kind = "Ok" THEN Ready(r.res)
    ELSE IF r.tag = "Ready" THEN Pending
         ELSE r

PollOutput(r) ==
    IF r.tag = "Ready" THEN Ready(r.res)
    ELSE IF r.tag = "Pending" THEN Pending
         ELSE Panicked

\* Service::poll_ready results of the inner service, and what
\* MetricsService::poll_ready hands back for them.
ReadyOkUnit == [kind |-> "OkUnit", grpc_status |-> None]
ReadyResults == {Pending, Ready(ReadyOkUnit), Ready(ErrRes)}

MutReadySwallowsErr(r) ==
    IF r.tag = "Ready" /\ r.res.kind = "Err" THEN Ready(ReadyOkUnit) ELSE r

PollReadyOutput(r) == r

\* What the inner future may do when polled: a future that already yielded
\* its result is outside the Future contract and may yield again, stay
\* pending, or panic.
InnerOutcomes(inner) ==
    IF inner = "Running"
    THEN {Pending} \cup {Ready(r) : r \in Results}
    ELSE {Pending, Panicked} \cup {Ready(r) : r \in Results}

----------------------------------------------------------------------------
(* State machine *)

NoHist == [firstPollAt |-> None, repolled |-> FALSE]

NotCalled ==
    [st |-> "NotCalled", path |-> None, service |-> None, method |-> None,
     started_at |-> None, inner |-> "NotCalled"]

Init ==
    /\ now = 0
    /\ fut = [c \in Calls |-> NotCalled]
    /\ metrics = [started_total |-> NoPoints, handled_total |-> NoPoints,
                  handling_duration |-> NoPoints, active_requests |-> NoPoints]
    /\ polls = [c \in Calls |-> 0]
    /\ last = [call |-> 0, innerOut |-> NotPolled, out |-> NotPolled, ops |-> <<>>]
    /\ tally = [c \in Calls |-> NoTally]
    /\ hist = [c \in Calls |-> NoHist]

\* Instant::now() advances between any two steps.
Tick ==
    /\ now < MaxClock
    /\ now' = now + 1
    /\ UNCHANGED <<fut, metrics, polls, last, tally, hist>>

\* MetricsService::call(req) for the c-th request, with req.uri().path() = path.
MutCallStampsStart(c, path) ==
    /\ fut[c].st = "NotCalled"
    /\ \A d \in Calls : d < c => fut[d].st # "NotCalled"
    /\ LET sp == rsplit_once(path)
       IN fut' = [fut EXCEPT ![c] =
            IF sp = None
            THEN [NotCalled EXCEPT !.st = "CallPanicked", !.path = path]
            ELSE [st |-> "Live", path |-> path, service |-> sp[1][1],
                  method |-> sp[1][2], started_at |-> Some(now), inner |-> "Running"]]
    /\ UNCHANGED <<now, metrics, polls, last, tally, hist>>

MutCallRecordsStart(c, path) ==
    /\ fut[c].st = "NotCalled"
    /\ \A d \in Calls : d < c => fut[d].st # "NotCalled"
    /\ LET sp == rsplit_once(path)
           f == [st |-> "Live", path |-> path, service |-> sp[1][1],
                 method |-> sp[1][2], started_at |-> Some(now), inner |-> "Running"]
       IN IF sp = None
          THEN /\ fut' = [fut EXCEPT ![c] =
                            [NotCalled EXCEPT !.st = "CallPanicked", !.path = path]]
               /\ UNCHANGED <<metrics, tally>>
          ELSE /\ fut' = [fut EXCEPT ![c] = f]
               /\ metrics' = ApplyOps(metrics, StartedOps(f))
               /\ tally' = [tally EXCEPT ![c] = AddTally(@, StartedOps(f))]
    /\ UNCHANGED <<now, polls, last, hist>>

Call(c, path) ==
    /\ fut[c].st = "NotCalled"
    /\ \A d \in Calls : d < c => fut[d].st # "NotCalled"
    /\ LET sp == rsplit_once(path)
       IN fut' = [fut EXCEPT ![c] =
            IF sp = None
            THEN [NotCalled EXCEPT !.st = "CallPanicked", !.path = path]
            ELSE [st |-> "Live", path |-> path, service |-> sp[1][1],
                  method |-> sp[1][2], started_at |-> None, inner |-> "Running"]]
    /\ UNCHANGED <<now, metrics, polls, last, tally, hist>>

\* The instrument operations of one poll of future f at clock t, in program
\* order: the started closure runs before this.inner.poll(cx) returns r.
MutOpsStartedOnReady(f, r, t) ==
    LET first == IsFirstPoll(f.started_at)
        started_at == IF first THEN Some(t) ELSE f.started_at
    IN IF r.tag = "Ready"
       THEN StartedOps(f) \o CompletionOps(f, r.res, started_at, t)
       ELSE <<>>

MutOpsCompletionFirst(f, r, t) ==
    LET first == IsFirstPoll(f.started_at)
        started_at == IF first THEN Some(t) ELSE f.started_at
        ops1 == IF first THEN StartedOps(f) ELSE <<>>
        ops2 == IF r.tag = "Ready"
                THEN CompletionOps(f, r.res, started_at, t)
                ELSE <<>>
    IN ops2 \o ops1

PollOps(f, r, t) ==
    LET first == IsFirstPoll(f.started_at)
        started_at == IF first THEN Some(t) ELSE f.started_at
        ops1 == IF first THEN StartedOps(f) ELSE <<>>
        ops2 == IF r.tag = "Ready"
                THEN CompletionOps(f, r.res, started_at, t)
                ELSE <<>>
    IN ops1 \o ops2

\* The MetricsFuture after one poll at clock t on which inner.poll returned r.
MutPolledFutureTakesLabels(f, r, t) ==
    [f EXCEPT !.started_at = IF IsFirstPoll(@) THEN Some(t) ELSE @,
              !.inner = IF r.tag = "Ready" THEN "Done" ELSE @,
              !.st = IF r.tag = "Panic" THEN "PollPanicked" ELSE @,
              !.service = <<>>,
              !.method = <<>>]

PolledFuture(f, r, t) ==
    [f EXCEPT !.started_at = IF IsFirstPoll(@) THEN Some(t) ELSE @,
              !.inner = IF r.tag = "Ready" THEN "Done" ELSE @,
              !.st = IF r.tag = "Panic" THEN "PollPanicked" ELSE @]

\* MetricsFuture::poll for call c, with r what this.inner.poll(cx) returns.
MutPollSharesStart(c, r) ==
    LET f == fut[c]
        ops == PollOps(f, r, now)
    IN /\ fut' = [d \in Calls |->
                    IF d = c THEN PolledFuture(f, r, now)
                    ELSE IF fut[d].st = "Live" /\ IsFirstPoll(fut[d].started_at)
                         THEN [fut[d] EXCEPT !.started_at = Some(now)]
                         ELSE fut[d]]
       /\ metrics' = ApplyOps(metrics, ops)
       /\ last' = [call |-> c, innerOut |-> r, out |-> PollOutput(r), ops |-> ops]
       /\ tally' = [tally EXCEPT ![c] = AddTally(@, ops)]
       /\ polls' = [polls EXCEPT ![c] = @ + 1]
       /\ hist' = [hist EXCEPT ![c] =
                     [firstPollAt |-> IF polls[c] = 0 THEN Some(now) ELSE @.firstPollAt,
                      repolled |-> @.repolled \/ f.inner = "Done"]]
       /\ UNCHANGED now

PollWith(c, r) ==
    LET f == fut[c]
        ops == PollOps(f, r, now)
    IN /\ fut' = [fut EXCEPT ![c] = PolledFuture(f, r, now)]
       /\ metrics' = ApplyOps(metrics, ops)
       /\ last' = [call |-> c, innerOut |-> r, out |-> PollOutput(r), ops |-> ops]
       /\ tally' = [tally EXCEPT ![c] = AddTally(@, ops)]
       /\ polls' = [polls EXCEPT ![c] = @ + 1]
       /\ hist' = [hist EXCEPT ![c] =
                     [firstPollAt |-> IF polls[c] = 0 THEN Some(now) ELSE @.firstPollAt,
                      repolled |-> @.repolled \/ f.inner = "Done"]]
       /\ UNCHANGED now

RECURSIVE SumPolls(_)
SumPolls(n) == IF n = 0 THEN 0 ELSE polls[n] + SumPolls(n - 1)

Poll(c) ==
    /\ fut[c].st = "Live"
    /\ SumPolls(MaxCalls) < MaxPolls
    /\ \E r \in InnerOutcomes(fut[c].inner) : PollWith(c, r)

Next ==
    \/ Tick
    \/ \E c \in Calls, path \in Paths : Call(c, path)
    \/ \E c \in Calls : Poll(c)

Spec == Init /\ [][Next]_vars

\* The caller drops the MetricsFuture of call c before the inner future has
\* yielded; MetricsFuture has no Drop impl, so nothing is recorded and the
\* future is never polled again. (Dropping a future that has already
\* returned Ready changes nothing the model observes and is not a step.)
MutDropDecrements(c) ==
    /\ fut[c].st = "Live"
    /\ fut[c].inner = "Running"
    /\ fut' = [fut EXCEPT ![c].st = "Dropped"]
    /\ LET ops == IF fut[c].started_at # None /\ fut[c].inner = "Running"
                  THEN <<Op("active_requests", <<fut[c].service, fut[c].method>>, -1)>>
                  ELSE <<>>
       IN /\ metrics' = ApplyOps(metrics, ops)
          /\ tally' = [tally EXCEPT ![c] = AddTally(@, ops)]
    /\ UNCHANGED <<now, polls, last, hist>>

Drop(c) ==
    /\ fut[c].st = "Live"
    /\ fut[c].inner = "Running"
    /\ fut' = [fut EXCEPT ![c].st = "Dropped"]
    /\ UNCHANGED <<now, metrics, polls, last, tally, hist>>

\* MetricsService::poll_ready, with r what self.service.poll_ready(cx) returns.
PollReadyWith(r) ==
    /\ last' = [call |-> 0, innerOut |-> r, out |-> PollReadyOutput(r), ops |-> <<>>]
    /\ UNCHANGED <<now, fut, metrics, polls, tally, hist>>

PollReady == \E r \in ReadyResults : PollReadyWith(r)

\* The service with callers that may abandon their futures.
NextDrop ==
    \/ Tick
    \/ \E c \in Calls, path \in Paths : Call(c, path)
    \/ \E c \in Calls : Poll(c)
    \/ \E c \in Calls : Drop(c)

SpecDrop == Init /\ [][NextDrop]_vars

\* The service with callers that poll its readiness between calls.
NextReady ==
    \/ Tick
    \/ \E c \in Calls, path \in Paths : Call(c, path)
    \/ \E c \in Calls : Poll(c)
    \/ PollReady

SpecReady == Init /\ [][NextReady]_vars

----------------------------------------------------------------------------
(* Observations used by the properties *)

\* The calls for which MetricsService::call returned a MetricsFuture.
Issued == {c \in Calls : fut[c].st \in {"Live", "PollPanicked"}}

LabelsOf(c) == <<fut[c].service, fut[c].method>>

\* The calls whose MetricsFuture has returned Ready at least once.
ReturnedReady(c) == fut[c].inner = "Done"

\* The value of an instrument's data point, 0 where none was ever recorded.
Val(instr, key) == IF key \in DOMAIN instr THEN instr[key] ELSE 0

RECURSIVE SumKeys(_, _)
SumKeys(instr, keys) ==
    IF keys = {} THEN 0
    ELSE LET k == CHOOSE x \in keys : TRUE
         IN instr[k] + SumKeys(instr, keys \ {k})

\* handled_total summed over the status codes of one (service, method) pair.
HandledSum(pair) ==
    SumKeys(metrics.handled_total,
            {k \in DOMAIN metrics.handled_total : <<k[1], k[2]>> = pair})

CallsWith(pair) == Cardinality({c \in Issued : LabelsOf(c) = pair})

HasSeparator(path) == \E i \in 1..Len(path) : path[i] = "/"

\* The decimal text of a status code number, as gRPC writes grpc-status.
Decimal(k) ==
    IF k < 10 THEN <<DigitChars[k + 1]>>
    ELSE <<DigitChars[(k \div 10) + 1], DigitChars[(k % 10) + 1]>>

\* The latest poll saw the inner future finish with this result.
LastReadyWith(res) == last.call # 0 /\ last.innerOut = Ready(res)

LastReadyOk == last.call # 0 /\ last.innerOut.tag = "Ready" /\ last.innerOut.res.kind = "Ok"

\* The grpc_code labels the latest poll attached to an instrument.
LastCodes(inst) ==
    {last.ops[i].key[3] : i \in {j \in 1..Len(last.ops) : last.ops[j].inst = inst}}

\* The latest poll recorded one handled_total point and one duration sample,
\* both under grpc_code = name, and both are in the instruments.
LastLabelled(name) ==
    /\ LastCodes("handled_total") = {name}
    /\ LastCodes("handling_duration") = {name}
    /\ \A i \in 1..Len(last.ops) :
          last.ops[i].key \in DOMAIN metrics[last.ops[i].inst]

----------------------------------------------------------------------------
(* Properties *)

\* C1 (as claimed): once every issued call's MetricsFuture has returned
\* Ready, each label pair has started_total = handled_total summed over codes
\* = the number of calls made with that pair, and active_requests = 0.
C1_TotalsAfterAllReady ==
    (Issued # {} /\ \A c \in Issued : ReturnedReady(c)) =>
        \A c \in Issued :
            LET pair == LabelsOf(c)
            IN /\ Val(metrics.started_total, pair) = CallsWith(pair)
               /\ HandledSum(pair) = CallsWith(pair)
               /\ Val(metrics.active_requests, pair) = 0

\* C2 (as claimed): active_requests is never negative for any label pair, and
\* every -1 a call applies is matched by an earlier +1 of the same call under
\* the same label pair.
C2_ActiveNonNegativePaired ==
    /\ \A k \in DOMAIN metrics.active_requests : metrics.active_requests[k] >= 0
    /\ \A c \in Calls : tally[c].dec <= tally[c].inc
    /\ \A i \in 1..Len(last.ops) :
          last.ops[i].inst = "active_requests" => last.ops[i].key = LabelsOf(last.call)

\* C3: the "started" recording (active_requests +1, started_total +1, start
\* timestamp := now) happens exactly once per call, on its first poll; every
\* later poll leaves started_total and the stored timestamp as they were.
C3_StartedOnceOnFirstPoll ==
    [][\A c \in Calls :
          /\ polls'[c] = 0 =>
                /\ tally'[c].started = 0 /\ tally'[c].inc = 0
                /\ fut'[c].started_at = None
          /\ polls'[c] >= 1 =>
                /\ tally'[c].started = 1 /\ tally'[c].inc = 1
                /\ fut'[c].started_at # None
          /\ (polls[c] = 0 /\ polls'[c] = 1) =>
                /\ fut'[c].started_at = Some(now)
                /\ metrics'.started_total =
                      Add(metrics.started_total, LabelsOf(c), 1)
          /\ (polls[c] >= 1 /\ polls'[c] = polls[c] + 1) =>
                /\ fut'[c].started_at = fut[c].started_at
                /\ metrics'.started_total = metrics.started_total
      ]_vars

C3_Witness ==
    \E c \in Calls :
        /\ polls[c] = 2 /\ last.call = c /\ last.out = Pending
        /\ fut[c].inner = "Running"
        /\ tally[c].started = 1
        /\ fut[c].started_at = Some(0) /\ now = 1

\* C4 (as claimed): the completion recording (active_requests -1,
\* handled_total +1, one duration sample) runs exactly once per call, even
\* when the future is polled again after Ready and the inner yields again.
C4_CompletionOnce ==
    \A c \in Calls :
        /\ tally[c].dec <= 1 /\ tally[c].handled <= 1 /\ tally[c].samples <= 1
        /\ ReturnedReady(c) =>
              tally[c].dec = 1 /\ tally[c].handled = 1 /\ tally[c].samples = 1

\* C5: every poll of MetricsFuture returns what the inner future returned on
\* that poll: Pending for Pending, Ready(res) with the same res for Ready.
C5_PassThrough ==
    last.call # 0 =>
        /\ last.innerOut.tag = "Pending" => last.out = Pending
        /\ last.innerOut.tag = "Ready" =>
              last.out.tag = "Ready" /\ last.out.res = last.innerOut.res

C5_Witness ==
    /\ LastReadyWith(OkResp(Some(HdrNotFoundDigits)))
    /\ last.out = Ready(OkResp(Some(HdrNotFoundDigits)))

\* C6: a request whose path has no '/' makes MetricsService::call panic before
\* the inner service is called and before a MetricsFuture exists; that call
\* records nothing in any instrument.
C6_NoSeparatorFailsFirst ==
    \A c \in Calls :
        (fut[c].st # "NotCalled" /\ ~HasSeparator(fut[c].path)) =>
            /\ fut[c].st = "CallPanicked"
            /\ fut[c].inner = "NotCalled"
            /\ polls[c] = 0
            /\ tally[c] = NoTally

C6_Witness ==
    \E c \in Calls :
        /\ fut[c].st = "CallPanicked" /\ fut[c].path = PathNoSep
        /\ \E d \in Calls : d # c /\ tally[d].started = 1

\* C7: when the inner future completes with Err, handled_total and the
\* duration sample are labelled with code Unknown and the error is returned.
C7_ErrLabelledUnknown ==
    LastReadyWith(ErrRes) =>
        /\ LastLabelled("Unknown")
        /\ last.out = Ready(ErrRes)

C7_Witness ==
    /\ LastReadyWith(ErrRes)
    /\ LastCodes("handled_total") = {"Unknown"}
    /\ last.out.res.kind = "Err"

\* C8 (as claimed): a response whose grpc-status header value is the text
\* NOT_FOUND is recorded under the NotFound code on both instruments.
C8_TextHeaderLabelled ==
    LastReadyWith(OkResp(Some(HdrNotFoundText))) => LastLabelled("NotFound")

\* C8 (amended): a response whose grpc-status header holds the decimal number
\* of a status code (0..16) is recorded under that code on both instruments;
\* the value "5" is recorded as NotFound, not Ok.
C8_NumericHeaderLabelled ==
    /\ \A k \in 0..16 :
          LastReadyWith(OkResp(Some(Decimal(k)))) => LastLabelled(CodeNames[k + 1])
    /\ LastReadyWith(OkResp(Some(HdrNotFoundDigits))) =>
          LastLabelled("NotFound") /\ ~LastLabelled("Ok")

C8_Witness ==
    /\ LastReadyWith(OkResp(Some(HdrNotFoundDigits)))
    /\ LastCodes("handled_total") = {"NotFound"}
    /\ LastCodes("handling_duration") = {"NotFound"}

\* C9: a response without a grpc-status header is recorded under code Ok.
C9_NoHeaderLabelledOk ==
    LastReadyWith(OkResp(None)) => LastLabelled("Ok")

C9_Witness ==
    /\ LastReadyWith(OkResp(None))
    /\ LastCodes("handled_total") = {"Ok"}

\* C10: a response whose grpc-status header is not the number of a known
\* status code is recorded under Unknown, never Ok, and the call still
\* returns the response.
C10_UnrecognisedLabelledUnknown ==
    (/\ LastReadyOk
     /\ last.innerOut.res.grpc_status # None
     /\ \A k \in 0..16 : last.innerOut.res.grpc_status # Some(Decimal(k))) =>
        /\ LastLabelled("Unknown")
        /\ ~LastLabelled("Ok")
        /\ last.out = Ready(last.innerOut.res)

C10_Witness ==
    /\ LastReadyWith(OkResp(Some(HdrOutOfRange)))
    /\ LastCodes("handled_total") = {"Unknown"}
    /\ last.out.res.kind = "Ok"

----------------------------------------------------------------------------
(* Properties of abandoned calls, per-call state and readiness *)

\* The calls that were given a MetricsFuture, dropped ones included.
HasFuture(c) == fut[c].st \in {"Live", "PollPanicked", "Dropped"}

\* Started, then dropped before the inner future yielded a result.
Abandoned(c) == fut[c].st = "Dropped" /\ polls[c] >= 1 /\ fut[c].inner = "Running"

\* What call c has added to active_requests so far.
NetActive(c) == tally[c].inc - tally[c].dec

RECURSIVE SumNet(_)
SumNet(S) ==
    IF S = {} THEN 0
    ELSE LET c == CHOOSE x \in S : TRUE
         IN NetActive(c) + SumNet(S \ {c})

\* C11: a call whose future was polled and then dropped before the inner
\* future yielded never records handled_total or a duration sample, and its
\* active_requests +1 is never undone: the gauge of its label pair is what
\* the other calls of the pair contribute plus one per abandoned call.
C11_AbandonedNeverCompleted ==
    \A c \in Calls :
        Abandoned(c) =>
            /\ tally[c].handled = 0 /\ tally[c].samples = 0
            /\ tally[c].inc = 1 /\ tally[c].dec = 0
            /\ LET pair == LabelsOf(c)
                   same == {d \in Calls : HasFuture(d) /\ LabelsOf(d) = pair}
                   gone == {d \in same : Abandoned(d)}
               IN Val(metrics.active_requests, pair) =
                      Cardinality(gone) + SumNet(same \ gone)

C11_Witness ==
    \E c, d \in Calls :
        /\ c # d /\ Abandoned(c)
        /\ LabelsOf(d) = LabelsOf(c) /\ ReturnedReady(d)
        /\ Val(metrics.active_requests, LabelsOf(c)) = 1
        /\ tally[c].handled = 0

\* A future that has been polled, returned Pending every time, and is still held.
Suspended(c) == fut[c].st = "Live" /\ polls[c] >= 1 /\ fut[c].inner = "Running"

\* C12: a call whose future has returned Pending and has not completed is
\* already counted: it has applied its active_requests +1 and started_total
\* +1 (and no -1), both instruments hold them, and on the first poll the two
\* increments are the first operations, issued even when that poll is Pending.
C12_StartedBeforeSuspension ==
    \A c \in Calls :
        Suspended(c) =>
            /\ tally[c].inc = 1 /\ tally[c].started = 1 /\ tally[c].dec = 0
            /\ LET pair == LabelsOf(c)
                   same == {d \in Calls : HasFuture(d) /\ LabelsOf(d) = pair}
               IN /\ Val(metrics.active_requests, pair) = SumNet(same)
                  /\ Val(metrics.started_total, pair) >=
                        Cardinality({d \in same : Suspended(d)})
            /\ (last.call = c /\ polls[c] = 1) =>
                  /\ Len(last.ops) = 2
                  /\ last.ops[1] = Op("active_requests", LabelsOf(c), 1)
                  /\ last.ops[2] = Op("started_total", LabelsOf(c), 1)

C12_Witness ==
    \E c \in Calls :
        /\ Suspended(c) /\ polls[c] = 1 /\ last.call = c /\ last.out = Pending
        /\ Val(metrics.active_requests, LabelsOf(c)) = 1
        /\ Val(metrics.started_total, LabelsOf(c)) = 1

\* The duration samples the latest poll recorded.
LastSamples ==
    {last.ops[i].val :
        i \in {j \in 1..Len(last.ops) : last.ops[j].inst = "handling_duration"}}

\* C13: the poll of call c on which the inner future is Ready records one
\* duration sample, equal to the clock at that poll minus the clock at the
\* call's first poll; it is >= 0, and 0 when that poll is the first one.
C13_DurationFromFirstPoll ==
    [][\A c \in Calls :
          (polls'[c] = polls[c] + 1 /\ last'.innerOut.tag = "Ready") =>
              /\ tally'[c].samples = tally[c].samples + 1
              /\ LastSamples' = {now' - hist'[c].firstPollAt[1]}
              /\ \A e \in LastSamples' : e >= 0
              /\ polls[c] = 0 => LastSamples' = {0}
      ]_vars

C13_Witness ==
    \E c \in Calls :
        /\ last.call = c /\ last.out.tag = "Ready" /\ polls[c] = 2
        /\ hist[c].firstPollAt = Some(0) /\ now = 1
        /\ ~hist[c].repolled
        /\ LastSamples = {1}

\* The (service, method) part of the label set of an instrument operation.
PairOf(op) == <<op.key[1], op.key[2]>>

\* C14: every instrument operation of a poll of call c (the +1 and -1 on
\* active_requests, started_total, handled_total, handling_duration) carries
\* the service and method the future got from MetricsService::call, and no
\* step changes the service and method of a future.
C14_LabelsFixedPerCall ==
    [][\A c \in Calls :
          /\ HasFuture(c) =>
                fut'[c].service = fut[c].service /\ fut'[c].method = fut[c].method
          /\ polls'[c] = polls[c] + 1 =>
                \A i \in 1..Len(last'.ops) : PairOf(last'.ops[i]) = LabelsOf(c)
      ]_vars

C14_Witness ==
    \E c \in Calls :
        /\ last.call = c /\ polls[c] = 2 /\ Len(last.ops) = 3
        /\ \A i \in 1..3 : PairOf(last.ops[i]) = <<<<"/", "s", "/", "t">>, <<"m">>>>
        /\ LabelsOf(c) = <<<<"/", "s", "/", "t">>, <<"m">>>>
        /\ tally[c].inc = 1 /\ tally[c].dec = 1

\* C15: the service and method of every future are the two sides of the
\* LAST '/' of its request path: service, '/', method spell the path again and
\* the method holds no '/', so earlier separators stay inside the service.
C15_SplitAtLastSeparator ==
    \A c \in Calls :
        HasFuture(c) =>
            /\ fut[c].service \o <<"/">> \o fut[c].method = fut[c].path
            /\ \A i \in 1..Len(fut[c].method) : fut[c].method[i] # "/"

C15_Witness ==
    \E c \in Calls :
        /\ fut[c].st = "Live"
        /\ fut[c].path = <<"/", "s", "/", "t", "/", "m">>
        /\ fut[c].service = <<"/", "s", "/", "t">>
        /\ fut[c].method = <<"m">>

\* The step polls call c's future or drops it.
ActsOn(c) ==
    \/ polls'[c] = polls[c] + 1
    \/ fut[c].st = "Live" /\ fut'[c].st = "Dropped"

\* C16: a step that polls, completes or drops call c's future leaves the
\* service, method and started_at of every other call as they were, and leaves
\* every instrument data point outside c's own (service, method) pair as it
\* was (neither created nor changed).
C16_PerCallStateIndependent ==
    [][\A c \in Calls :
          ActsOn(c) =>
            /\ \A d \in Calls \ {c} :
                  /\ fut'[d].service = fut[d].service
                  /\ fut'[d].method = fut[d].method
                  /\ fut'[d].started_at = fut[d].started_at
            /\ \A inst \in DOMAIN metrics :
                  \A key \in (DOMAIN metrics[inst]) \cup (DOMAIN metrics'[inst]) :
                      <<key[1], key[2]>> # LabelsOf(c) =>
                          /\ key \in DOMAIN metrics[inst]
                          /\ key \in DOMAIN metrics'[inst]
                          /\ metrics'[inst][key] = metrics[inst][key]
      ]_vars

C16_Witness ==
    \E c \in Calls : \E d \in Calls \ {c} :
        /\ last.call = c /\ polls[c] = 1 /\ fut[c].started_at # None
        /\ LabelsOf(d) # LabelsOf(c)
        /\ fut[d].st = "Dropped" /\ polls[d] = 1
        /\ Val(metrics.active_requests, LabelsOf(d)) = 1

\* No future has been polled after it returned Ready.
NoRepoll == \A c \in Calls : ~hist[c].repolled

\* The (service, method) pairs and (service, method, code) triples that have a
\* data point in some instrument.
RecordedPairs ==
    {<<k[1], k[2]>> : k \in UNION {DOMAIN metrics[inst] : inst \in DOMAIN metrics}}

RecordedTriples == (DOMAIN metrics.handled_total) \cup (DOMAIN metrics.handling_duration)

\* The number of samples recorded in handling_duration under a label triple.
SampleCount(key) ==
    IF key \in DOMAIN metrics.handling_duration
    THEN SumKeys(metrics.handling_duration[key], DOMAIN metrics.handling_duration[key])
    ELSE 0

\* C17: while no future has been polled again after Ready, for every
\* (service, method) pair active_requests = started_total - handled_total
\* summed over codes and that sum is at most started_total, and for every
\* (service, method, code) triple handling_duration holds as many samples as
\* handled_total counts.
C17_CounterBalance ==
    NoRepoll =>
        /\ \A pair \in RecordedPairs :
              /\ Val(metrics.active_requests, pair)
                    = Val(metrics.started_total, pair) - HandledSum(pair)
              /\ HandledSum(pair) <= Val(metrics.started_total, pair)
        /\ \A key \in RecordedTriples :
              SampleCount(key) = Val(metrics.handled_total, key)

C17_Witness ==
    /\ NoRepoll
    /\ \E pair \in RecordedPairs :
          /\ Val(metrics.started_total, pair) = 2
          /\ HandledSum(pair) = 1
          /\ Val(metrics.active_requests, pair) = 1
          /\ \E key \in RecordedTriples :
                <<key[1], key[2]>> = pair /\ SampleCount(key) = 1

\* Created by MetricsService::call and dropped without ever being polled.
DroppedUnpolled(c) == fut[c].st = "Dropped" /\ polls[c] = 0

\* C18: a future that was created and dropped without a poll has recorded
\* nothing in any instrument although the inner service's call was invoked for
\* it; and whenever a call has its "started" recording, the inner service's
\* call has been invoked for it before.
C18_UnpolledRecordsNothing ==
    \A c \in Calls :
        /\ DroppedUnpolled(c) =>
              /\ tally[c] = NoTally
              /\ fut[c].started_at = None
              /\ fut[c].inner = "Running"
        /\ (tally[c].started >= 1 \/ tally[c].inc >= 1) => fut[c].inner # "NotCalled"

C18_Witness ==
    /\ \E c \in Calls : DroppedUnpolled(c) /\ fut[c].inner = "Running"
    /\ \A c \in Calls : polls[c] = 0
    /\ \A inst \in DOMAIN metrics : metrics[inst] = NoPoints

\* The latest poll was the first poll of its call and returned Ready.
LastFirstPollReady ==
    last.call # 0 /\ polls[last.call] = 1 /\ last.innerOut.tag = "Ready"

\* C19: within one call the "started" recording precedes the "handled"
\* recording: a first poll that is Ready applies, in this order,
\* active_requests +1, started_total +1, active_requests -1, handled_total +1
\* and one duration sample; in no poll does a completion operation come before
\* a start operation; and no call is counted handled without being counted
\* started.
C19_StartedBeforeHandled ==
    /\ LastFirstPollReady =>
          /\ Len(last.ops) = 5
          /\ last.ops[1].inst = "active_requests" /\ last.ops[1].val = 1
          /\ last.ops[2].inst = "started_total" /\ last.ops[2].val = 1
          /\ last.ops[3].inst = "active_requests" /\ last.ops[3].val = -1
          /\ last.ops[4].inst = "handled_total" /\ last.ops[4].val = 1
          /\ last.ops[5].inst = "handling_duration"
    /\ \A i \in 1..Len(last.ops) : \A j \in 1..Len(last.ops) :
          (last.ops[i].inst = "started_total" /\ last.ops[j].inst = "handled_total")
              => i < j
    /\ \A c \in Calls :
          (tally[c].handled >= 1 \/ tally[c].samples >= 1 \/ tally[c].dec >= 1)
              => (tally[c].started = 1 /\ tally[c].inc = 1)

C19_Witness ==
    /\ LastFirstPollReady
    /\ Len(last.ops) = 5
    /\ tally[last.call].started = 1 /\ tally[last.call].handled = 1
    /\ last.ops[2].inst = "started_total" /\ last.ops[4].inst = "handled_total"

\* The step is a MetricsService::poll_ready whose result differs from the
\* latest recorded one.
PollReadyStep == last'.call = 0 /\ last' # last

\* C20: poll_ready hands back exactly what the inner service's poll_ready
\* returned, applies no instrument operation, and leaves the clock, every
\* future, every instrument and every per-call record as they were.
C20_PollReadyPassThrough ==
    [][PollReadyStep =>
          /\ last'.out = last'.innerOut
          /\ last'.innerOut \in ReadyResults
          /\ last'.ops = <<>>
          /\ UNCHANGED <<now, fut, metrics, polls, tally, hist>>
      ]_vars

C20_Witness ==
    /\ last.call = 0
    /\ last.innerOut = Ready(ErrRes)
    /\ last.out = Ready(ErrRes)
    /\ \E c \in Calls :
          /\ polls[c] = 1 /\ fut[c].inner = "Running" /\ fut[c].started_at # None
          /\ Val(metrics.active_requests, LabelsOf(c)) = 1

====
